---- MODULE Spec2Model ----
(***************************************************************************)
(* A model of make_img.py: a Life-like cellular automaton on a toroidal    *)
(* grid, seeded with a named pattern and stepped once per animation frame. *)
(*                                                                         *)
(* A grid is a sequence of rows, each a sequence of cells (0 = DEAD,       *)
(* 1 = ALIVE).  numpy indexes from 0, sequences from 1: cell (r, c) of the *)
(* program is g[r + 1][c + 1] here.                                        *)
(***************************************************************************)
EXTENDS Integers, Sequences, FiniteSets

VARIABLES
    pc,             \* position of the script: start, bake, animate, saved, exited, error
    args,           \* sys.argv, each word a sequence of characters
    PATTERN,        \* the upper-cased pattern name (line 22)
    stdout,         \* what has been printed
    exit_code,      \* the exit status once the process has ended, -1 while it runs
    grid,           \* the global grid, <<>> before line 37 creates it
    init_cells,     \* the coordinates still to bake in (line 94)
    ij,             \* the loop variables (i, j) of line 94, <<>> before the loop
    outfile,        \* the output path chosen for the pattern
    frames,         \* the frame count chosen for the pattern
    calls,          \* how many times animate_life has been called
    num_neighbors,  \* the neighbour counts of the last call of animate_life
    gen0,           \* the grid as seeded, when the animation starts
    emitted,        \* the grids handed to im.set_data, in order
    files           \* the output files written

vars == <<pc, args, PATTERN, stdout, exit_code, grid, init_cells, ij, outfile,
          frames, calls, num_neighbors, gen0, emitted, files>>

(***************************************************************************)
(* Bounds.  The program runs a 100 x 100 grid for 300 frames; the model    *)
(* runs a GRID_SIZE x GRID_SIZE grid for MaxFrames frames.  The stepping   *)
(* function is also run on every grid of StepRows x StepCols cells, and    *)
(* for its translation property on every grid of ShiftShort x ShiftLong    *)
(* and of ShiftLong x ShiftShort cells.                                    *)
(***************************************************************************)
GRID_SIZE == 5
MaxFrames == 3
StepRows == 3
StepCols == 3
ShiftShort == 3
ShiftLong == 4

DEAD == 0
ALIVE == 1

(***************************************************************************)
(* Command line.                                                           *)
(***************************************************************************)
\* str.upper() on the characters the modelled arguments use
UpperChar(ch) ==
    CASE ch = "a" -> "A" [] ch = "b" -> "B" [] ch = "e" -> "E" [] ch = "f" -> "F"
      [] ch = "h" -> "H" [] ch = "i" -> "I" [] ch = "l" -> "L" [] ch = "n" -> "N"
      [] ch = "r" -> "R" [] ch = "s" -> "S" [] ch = "t" -> "T" [] ch = "u" -> "U"
      [] OTHER -> ch

upper(s) == [k \in DOMAIN s |-> UpperChar(s[k])]

SHUTTLES == <<"S", "H", "U", "T", "T", "L", "E", "S">>
BRAIN == <<"B", "R", "A", "I", "N">>

valid_patterns == {SHUTTLES, BRAIN}

\* the words a command line of the model is made of
ArgWords ==
    { SHUTTLES, BRAIN,
      <<"s", "h", "u", "t", "t", "l", "e", "s">>,
      <<"B", "r", "a", "i", "n">>,
      <<"l", "i", "f", "e">>,
      <<>> }

\* sys.argv: the script's name, then zero, one or two words
ArgvInputs ==
    { <<<<"make_img.py">>>> }
      \cup { <<<<"make_img.py">>, w>> : w \in ArgWords }
      \cup { <<<<"make_img.py">>, w, v>> : w \in {BRAIN, <<"l", "i", "f", "e">>}, v \in {SHUTTLES} }

usage == <<"Please provide a pattern from the list below as an argument:", valid_patterns>>

(***************************************************************************)
(* The rule table and the step.                                            *)
(***************************************************************************)
rules_highlife ==
    << <<0, 0, 0, 1, 0, 0, 1, 0, 0>>, <<0, 0, 1, 1, 0, 0, 0, 0, 0>> >>

rules_diamoeba ==
    << <<0, 0, 0, 1, 0, 1, 1, 1, 1>>, <<0, 0, 0, 0, 0, 1, 1, 1, 1>> >>

rules_typo ==
    << <<0, 0, 0, 2, 0, 0, 0, 0, 0>>, <<0, 0, 1, 1, 0, 0, 0, 0, 0>> >>

rules ==
    << <<0, 0, 0, 1, 0, 0, 0, 0, 0>>, <<0, 0, 1, 1, 0, 0, 0, 0, 0>> >>

\* a.shape[0] and a.shape[1]
nrows(a) == Cardinality(DOMAIN a)
ncols(a) == Cardinality(DOMAIN a[1])

\* an array held as a sequence of sequences, every cell computed
array(a) == [r \in DOMAIN a |-> a[r] \o <<>>] \o <<>>

\* np.random.choice([0], (rows, cols), p=[1]): every cell 0
zeros(rows, cols) == [r \in 1..rows |-> [c \in 1..cols |-> DEAD]]

\* a shift that drops what leaves the grid and fills with DEAD
np_roll_nowrap(a, shift, axis) ==
    IF axis = 0
    THEN [r \in 1..nrows(a) |->
            IF r - shift \in 1..nrows(a) THEN a[r - shift]
            ELSE [c \in 1..ncols(a) |-> DEAD]]
    ELSE [r \in 1..nrows(a) |-> [c \in 1..ncols(a) |->
            IF c - shift \in 1..ncols(a) THEN a[r][c - shift] ELSE DEAD]]

\* a shift that repeats the edge row or column instead of wrapping
np_roll_clamp(a, shift, axis) ==
    LET clamp(k, n) == IF k < 1 THEN 1 ELSE IF k > n THEN n ELSE k
    IN  IF axis = 0
        THEN [r \in 1..nrows(a) |-> a[clamp(r - shift, nrows(a))]]
        ELSE [r \in 1..nrows(a) |-> [c \in 1..ncols(a) |->
                a[r][clamp(c - shift, ncols(a))]]]

\* np.roll(a, shift, axis): result[k] = a[(k - shift) mod n] along the axis
np_roll(a, shift, axis) ==
    IF axis = 0
    THEN array([r \in 1..nrows(a) |-> a[((r - 1 - shift) % nrows(a)) + 1]])
    ELSE array([r \in 1..nrows(a) |-> [c \in 1..ncols(a) |->
                  a[r][((c - 1 - shift) % ncols(a)) + 1]]])

\* elementwise a + b
add(a, b) == array([r \in 1..nrows(a) |-> [c \in 1..ncols(a) |-> a[r][c] + b[r][c]]])

von_neumann_neighbors(g) ==
    add(add(add(np_roll(g, 1, 0), np_roll(g, -1, 0)), np_roll(g, 1, 1)), np_roll(g, -1, 1))

diag_neighbors(g) ==
    add(add(add(np_roll(np_roll(g, 1, 0), 1, 1), np_roll(np_roll(g, 1, 0), -1, 1)),
            np_roll(np_roll(g, -1, 0), 1, 1)),
        np_roll(np_roll(g, -1, 0), -1, 1))

\* a count that leaves the diagonal neighbours out
count_orthogonal_only(g) == von_neumann_neighbors(g)

count_neighbors(g) == add(von_neumann_neighbors(g), diag_neighbors(g))

\* rules[g, n]: the table indexed cell by cell
lookup(g, n) ==
    array([r \in 1..nrows(g) |-> [c \in 1..ncols(g) |-> rules[g[r][c] + 1][n[r][c] + 1]]])

(***************************************************************************)
(* Reference definitions the properties compare the step with.             *)
(***************************************************************************)
Moore == ({-1, 0, 1} \X {-1, 0, 1}) \ {<<0, 0>>}

\* the cell at 0-based (r, c), indices taken modulo the grid's dimensions
get(g, r, c) == g[(r % nrows(g)) + 1][(c % ncols(g)) + 1]

\* the number of ALIVE cells among the 8 wrapped neighbours of 0-based (r, c)
RefCount(g, r, c) == Cardinality({d \in Moore : get(g, r + d[1], c + d[2]) = ALIVE})

Conway(s, n) ==
    IF s = DEAD THEN (IF n = 3 THEN ALIVE ELSE DEAD)
    ELSE (IF n \in {2, 3} THEN ALIVE ELSE DEAD)

\* the synchronous update, cell by cell from the pre-step grid
SyncRef(g) ==
    [r \in 1..nrows(g) |-> [c \in 1..ncols(g) |->
        rules[g[r][c] + 1][RefCount(g, r - 1, c - 1) + 1]]]

\* a sweep that updates cell k (row-major) in place and goes on from the result
RECURSIVE SweepFrom(_, _)
SweepFrom(g, k) ==
    IF k >= nrows(g) * ncols(g) THEN g
    ELSE LET r == k \div ncols(g)
             c == k % ncols(g)
         IN  SweepFrom([g EXCEPT ![r + 1][c + 1] =
                            rules[g[r + 1][c + 1] + 1][RefCount(g, r, c) + 1]],
                       k + 1)

sequential_sweep(g) == SweepFrom(g, 0)

\* the cyclic shift of g by (dr, dc)
Shift(g, dr, dc) ==
    array([r \in 1..nrows(g) |-> [c \in 1..ncols(g) |->
        g[((r - 1 - dr) % nrows(g)) + 1][((c - 1 - dc) % ncols(g)) + 1]]])

(***************************************************************************)
(* animate_life's new grid: rules[grid, num_neighbors].                    *)
(***************************************************************************)
step(g) == lookup(g, count_neighbors(g))

(***************************************************************************)
(* Seeding: grid[i, j] = 1 with numpy's index rules.                       *)
(***************************************************************************)
\* numpy accepts an index k on an axis of length n when -n <= k < n
index_ok(k, n) == k >= -n /\ k < n

\* and counts a negative index from the end
index(k, n) == IF k < 0 THEN k + n ELSE k

setitem(g, i, j) ==
    [g EXCEPT ![index(i, nrows(g)) + 1][index(j, ncols(g)) + 1] = ALIVE]

\* the components of the shuttles pattern, relative to their top-left corner
shuttle_block == << <<0, 0>>, <<0, 1>>, <<1, 0>>, <<1, 1>> >>
shuttle_blinker == << <<0, 0>>, <<0, 1>>, <<0, 2>> >>
shuttle_core == << <<2, 0>>, <<1, 0>>, <<0, 0>>, <<0, 1>>, <<0, 2>>, <<1, 2>>, <<2, 2>> >>

\* a component placed with its corner at (r0, c0) of the torus
Place(shape, r0, c0) ==
    [k \in DOMAIN shape |->
        <<(r0 + shape[k][1]) % GRID_SIZE, (c0 + shape[k][2]) % GRID_SIZE>>]

\* the coordinate lists the seeding loop is run on: a component anywhere on
\* the torus, or one coordinate, inside the grid or outside it
InitCellsInputs ==
    { Place(s, r0, c0) : s \in {shuttle_block, shuttle_blinker, shuttle_core},
                         r0 \in 0..(GRID_SIZE - 1), c0 \in 0..(GRID_SIZE - 1) }
      \cup { << <<i, j>> >> : i \in (-GRID_SIZE - 1)..GRID_SIZE,
                              j \in (-GRID_SIZE - 1)..GRID_SIZE }

(***************************************************************************)
(* The script, top to bottom.                                              *)
(***************************************************************************)
Init ==
    /\ pc = "start"
    /\ args \in ArgvInputs
    /\ PATTERN = <<>>
    /\ stdout = <<>>
    /\ exit_code = -1
    /\ grid = <<>>
    /\ init_cells = <<>>
    /\ ij = <<>>
    /\ outfile = ""
    /\ frames = 0
    /\ calls = 0
    /\ num_neighbors = <<>>
    /\ gen0 = <<>>
    /\ emitted = <<>>
    /\ files = {}

\* lines 14-17: the argument count is not one
UsageMissing ==
    /\ pc = "start"
    /\ Len(args) # 2
    /\ stdout' = stdout \o usage
    /\ exit_code' = 0
    /\ pc' = "exited"
    /\ UNCHANGED <<args, PATTERN, grid, init_cells, ij, outfile, frames, calls,
                   num_neighbors, gen0, emitted, files>>

\* lines 18-21: the argument is no supported pattern
UsageUnknown ==
    /\ pc = "start"
    /\ Len(args) = 2
    /\ upper(args[2]) \notin valid_patterns
    /\ stdout' = stdout \o usage
    /\ exit_code' = 0
    /\ pc' = "exited"
    /\ UNCHANGED <<args, PATTERN, grid, init_cells, ij, outfile, frames, calls,
                   num_neighbors, gen0, emitted, files>>

\* lines 22-91: the pattern is accepted, the grid created all DEAD (the image
\* of line 45 is made from it, before any cell is seeded), and the pattern's
\* cells, output file and frame count chosen.  The catalog's coordinates fit a
\* 100 x 100 grid; here the cells are a component of it placed on the model's
\* grid, or a single coordinate, and the frame count is MaxFrames for 300.
Setup ==
    /\ pc = "start"
    /\ Len(args) = 2
    /\ upper(args[2]) \in valid_patterns
    /\ PATTERN' = upper(args[2])
    /\ grid' = zeros(GRID_SIZE, GRID_SIZE)
    /\ \E cells \in InitCellsInputs : init_cells' = cells
    /\ outfile' = (IF PATTERN' = SHUTTLES THEN "img/shuttles.gif" ELSE "img/brain.gif")
    /\ frames' = MaxFrames
    /\ pc' = "bake"
    /\ UNCHANGED <<args, stdout, exit_code, ij, calls, num_neighbors, gen0,
                   emitted, files>>

\* lines 94-95: one turn of the seeding loop
Bake ==
    /\ pc = "bake"
    /\ init_cells # <<>>
    /\ ij' = Head(init_cells)
    /\ init_cells' = Tail(init_cells)
    /\ IF index_ok(ij'[1], Len(grid)) /\ index_ok(ij'[2], Len(grid[1]))
       THEN /\ grid' = setitem(grid, ij'[1], ij'[2])
            /\ UNCHANGED <<pc, exit_code>>
       ELSE \* IndexError, uncaught
            /\ pc' = "error"
            /\ exit_code' = 1
            /\ UNCHANGED grid
    /\ UNCHANGED <<args, PATTERN, stdout, outfile, frames, calls, num_neighbors,
                   gen0, emitted, files>>

\* line 98: the loop is over, the animation is set up
StartAnimation ==
    /\ pc = "bake"
    /\ init_cells = <<>>
    /\ gen0' = grid
    /\ pc' = "animate"
    /\ UNCHANGED <<args, PATTERN, stdout, exit_code, grid, init_cells, ij, outfile,
                   frames, calls, num_neighbors, emitted, files>>

\* a callback that hands the grid over before stepping it
animate_life_show_first ==
    /\ pc = "animate"
    /\ calls < frames
    /\ num_neighbors' = count_neighbors(grid)
    /\ grid' = step(grid)
    /\ emitted' = Append(emitted, grid)
    /\ calls' = calls + 1
    /\ UNCHANGED <<pc, args, PATTERN, stdout, exit_code, init_cells, ij, outfile,
                   frames, gen0, files>>

\* lines 48-62: one call of the frame callback
animate_life ==
    /\ pc = "animate"
    /\ calls < frames
    /\ num_neighbors' = count_neighbors(grid)
    /\ grid' = step(grid)
    /\ emitted' = Append(emitted, grid')
    /\ calls' = calls + 1
    /\ UNCHANGED <<pc, args, PATTERN, stdout, exit_code, init_cells, ij, outfile,
                   frames, gen0, files>>

\* line 99: every frame drawn, the file is written
Save ==
    /\ pc = "animate"
    /\ calls = frames
    /\ files' = files \cup {outfile}
    /\ exit_code' = 0
    /\ pc' = "saved"
    /\ UNCHANGED <<args, PATTERN, stdout, grid, init_cells, ij, outfile, frames,
                   calls, num_neighbors, gen0, emitted>>

Next ==
    \/ UsageMissing
    \/ UsageUnknown
    \/ Setup
    \/ Bake
    \/ StartAnimation
    \/ animate_life
    \/ Save

Spec == Init /\ [][Next]_vars

(***************************************************************************)
(* The step alone, from every grid of StepRows x StepCols cells.           *)
(***************************************************************************)
AllGrids(rows, cols) == [1..rows -> [1..cols -> {DEAD, ALIVE}]]

InitStep ==
    /\ pc = "animate"
    /\ args = <<>>
    /\ PATTERN = <<>>
    /\ stdout = <<>>
    /\ exit_code = -1
    /\ grid \in AllGrids(StepRows, StepCols)
    /\ init_cells = <<>>
    /\ ij = <<>>
    /\ outfile = ""
    /\ frames = 1
    /\ calls = 0
    /\ num_neighbors = <<>>
    /\ gen0 = grid
    /\ emitted = <<>>
    /\ files = {}

NextStep == animate_life

SpecStep == InitStep /\ [][NextStep]_vars

(***************************************************************************)
(* The step alone, from every grid of ShiftShort x ShiftLong and of        *)
(* ShiftLong x ShiftShort cells: along an axis of length 3 every cell      *)
(* neighbours every position, so each axis in turn is made longer.         *)
(***************************************************************************)
InitShift ==
    /\ pc = "animate"
    /\ args = <<>>
    /\ PATTERN = <<>>
    /\ stdout = <<>>
    /\ exit_code = -1
    /\ grid \in AllGrids(ShiftShort, ShiftLong) \cup AllGrids(ShiftLong, ShiftShort)
    /\ init_cells = <<>>
    /\ ij = <<>>
    /\ outfile = ""
    /\ frames = 1
    /\ calls = 0
    /\ num_neighbors = <<>>
    /\ gen0 = grid
    /\ emitted = <<>>
    /\ files = {}

NextShift == animate_life

SpecShift == InitShift /\ [][NextShift]_vars

\* the grid the last call of animate_life read
Prev == IF Len(emitted) = 1 THEN gen0 ELSE emitted[Len(emitted) - 1]

\* the seed advanced by k steps
RECURSIVE Advance(_, _)
Advance(g, k) == IF k = 0 THEN g ELSE step(Advance(g, k - 1))

\* the 0-based coordinates of the ALIVE cells
LiveCells(g) ==
    {rc \in (0..(Len(g) - 1)) \X (0..(Len(g[1]) - 1)) : g[rc[1] + 1][rc[2] + 1] = ALIVE}

Stepped == Len(emitted) >= 1

(***************************************************************************)
(* C1: the rule table the step uses is Conway's: a DEAD cell becomes ALIVE *)
(* iff it has exactly 3 live neighbours, an ALIVE cell stays ALIVE iff it  *)
(* has 2 or 3, for every count in 0..8; and every cell of a stepped grid   *)
(* is that function of its pre-step state and its computed count.          *)
(***************************************************************************)
C1_RuleTableIsConway ==
    /\ \A s \in {DEAD, ALIVE}, n \in 0..8 : rules[s + 1][n + 1] = Conway(s, n)
    /\ Stepped =>
         \A r \in 1..Len(grid), c \in 1..Len(grid[1]) :
            grid[r][c] = Conway(Prev[r][c], num_neighbors[r][c])

\* a step in which births and survivals happen together: a DEAD cell with
\* exactly 3 neighbours is born beside an ALIVE cell with 2 that survives
C1_Witness ==
    /\ Stepped
    /\ \E r \in 1..Len(grid), c \in 1..Len(grid[1]) :
          Prev[r][c] = DEAD /\ num_neighbors[r][c] = 3 /\ grid[r][c] = ALIVE
    /\ \E r \in 1..Len(grid), c \in 1..Len(grid[1]) :
          Prev[r][c] = ALIVE /\ num_neighbors[r][c] = 2 /\ grid[r][c] = ALIVE

(***************************************************************************)
(* C2: the neighbour count the step computes for cell (r, c) is the number *)
(* of ALIVE cells among the 8 positions ((r+dr) mod H, (c+dc) mod W); a    *)
(* live cell at (0,0) is counted for (H-1,W-1), (H-1,0) and (0,W-1).       *)
(***************************************************************************)
C2_NeighborCountIsToroidal ==
    Stepped =>
      /\ \A r \in 0..(Len(Prev) - 1), c \in 0..(Len(Prev[1]) - 1) :
            num_neighbors[r + 1][c + 1] = RefCount(Prev, r, c)
      /\ Prev[1][1] = ALIVE =>
            /\ num_neighbors[Len(Prev)][Len(Prev[1])] >= 1
            /\ num_neighbors[Len(Prev)][1] >= 1
            /\ num_neighbors[1][Len(Prev[1])] >= 1

\* the step has run on the grid whose only live cell is (0,0), and the three
\* corners across the wrap each count it once
C2_Witness ==
    /\ Stepped
    /\ LiveCells(Prev) = {<<0, 0>>}
    /\ num_neighbors[Len(Prev)][Len(Prev[1])] = 1
    /\ num_neighbors[Len(Prev)][1] = 1
    /\ num_neighbors[1][Len(Prev[1])] = 1

(***************************************************************************)
(* C3: the step is synchronous: the new grid is, cell by cell, the rule    *)
(* applied to the cell's pre-step state and a count taken from the         *)
(* pre-step grid alone.                                                    *)
(***************************************************************************)
C3_StepIsSynchronous == Stepped => grid = SyncRef(Prev)

\* a step on a grid where an in-place sweep would have given another result
C3_Witness ==
    /\ Stepped
    /\ grid = SyncRef(Prev)
    /\ sequential_sweep(Prev) # grid

(***************************************************************************)
(* C10: the step commutes with toroidal translation: shifting the stepped  *)
(* grid by any (dr, dc) gives the step of the shifted pre-step grid.       *)
(***************************************************************************)
C10_StepCommutesWithShift ==
    Stepped =>
      \A dr \in 0..(Len(grid) - 1), dc \in 0..(Len(grid[1]) - 1) :
         \E shifted \in {Shift(Prev, dr, dc)} :
            Shift(grid, dr, dc) = step(shifted)

\* a step on a grid with live cells in its first row and first column, whose
\* result has live cells and is not invariant under a shift
C10_Witness ==
    /\ Stepped
    /\ \E c \in 1..Len(Prev[1]) : Prev[1][c] = ALIVE
    /\ \E r \in 1..Len(Prev) : Prev[r][1] = ALIVE
    /\ LiveCells(grid) # {}
    /\ Shift(grid, 1, 0) # grid
    /\ Shift(grid, 0, 1) # grid
    /\ \E shifted \in {Shift(Prev, 1, 1)} : Shift(grid, 1, 1) = step(shifted)

(***************************************************************************)
(* C4, as amended: every frame the callback hands to the renderer is a     *)
(* stepped grid.  The first frame is the seed advanced by one step, each   *)
(* later frame is one further step from the frame before it, so the k-th   *)
(* frame handed over shows the seed advanced by exactly k steps.           *)
(***************************************************************************)
C4_FramesAreSteppedSeed ==
    \A k \in 1..Len(emitted) :
       /\ emitted[k] = Advance(gen0, k)
       /\ emitted[k] = step(IF k = 1 THEN gen0 ELSE emitted[k - 1])

\* three frames handed over, each differing from the one before and the
\* first differing from the seed
C4_Witness ==
    /\ Len(emitted) >= 3
    /\ emitted[1] # gen0
    /\ emitted[2] # emitted[1]
    /\ emitted[3] # emitted[2]
    /\ emitted[3] = Advance(gen0, 3)

\* C4 as stated: the first frame handed over is the seed itself, and the
\* k-th frame after it shows the seed advanced by k steps
C4_FirstFrameIsSeed ==
    \A k \in 1..Len(emitted) : emitted[k] = Advance(gen0, k - 1)

(***************************************************************************)
(* C5: a missing or unsupported pattern name is reported with the valid    *)
(* set and ends the process with a non-zero exit code, with no grid        *)
(* created, no step taken and no file written.                             *)
(***************************************************************************)
BadArgs == Len(args) # 2 \/ upper(args[2]) \notin valid_patterns

C5_UsageErrorExitsNonZero ==
    (pc # "start" /\ BadArgs) =>
       /\ pc = "exited"
       /\ stdout = usage
       /\ exit_code \notin {-1, 0}
       /\ grid = <<>>
       /\ gen0 = <<>>
       /\ calls = 0
       /\ emitted = <<>>
       /\ files = {}

(***************************************************************************)
(* C6: seeding sets a coordinate ALIVE only when it lies inside the grid:  *)
(* (0,0) and (H-1,W-1) succeed, and a coordinate with a row or column      *)
(* outside 0..H-1 / 0..W-1 fails and is never wrapped onto another cell.   *)
(***************************************************************************)
InGrid(rc) == rc[1] \in 0..(GRID_SIZE - 1) /\ rc[2] \in 0..(GRID_SIZE - 1)

C6_SeedingRejectsOutOfGrid ==
    (ij # <<>> /\ pc \in {"bake", "error"}) =>
       IF InGrid(ij)
       THEN pc = "bake" /\ grid[ij[1] + 1][ij[2] + 1] = ALIVE
       ELSE pc = "error" /\ LiveCells(grid) = {}

(***************************************************************************)
(* C7: a grid whose only ALIVE cells form a 2x2 block, placed anywhere on  *)
(* the torus, is a fixed point of the step: every frame equals the seed.   *)
(***************************************************************************)
BlockCells(r0, c0) ==
    {<<(r0 + a) % GRID_SIZE, (c0 + b) % GRID_SIZE>> : a \in {0, 1}, b \in {0, 1}}

IsBlock(g) ==
    \E r0 \in 0..(GRID_SIZE - 1), c0 \in 0..(GRID_SIZE - 1) : LiveCells(g) = BlockCells(r0, c0)

C7_BlockIsStillLife ==
    (pc \in {"animate", "saved"} /\ IsBlock(gen0)) =>
       /\ grid = gen0
       /\ \A k \in 1..Len(emitted) : emitted[k] = gen0

\* every frame drawn from a block that straddles both wrap-around edges
C7_Witness ==
    /\ pc = "saved"
    /\ Len(emitted) = MaxFrames
    /\ LiveCells(gen0) = BlockCells(GRID_SIZE - 1, GRID_SIZE - 1)
    /\ grid = gen0
    /\ \A k \in 1..Len(emitted) : emitted[k] = gen0

(***************************************************************************)
(* C8: a grid whose only ALIVE cells are three consecutive cells of one    *)
(* row has period exactly 2: one step gives the vertical line of three     *)
(* through the same centre, a different grid, and the next step gives the  *)
(* original grid again.                                                    *)
(***************************************************************************)
RowOfThree(r, c) ==
    {<<r, (c - 1) % GRID_SIZE>>, <<r, c>>, <<r, (c + 1) % GRID_SIZE>>}

ColumnOfThree(r, c) ==
    {<<(r - 1) % GRID_SIZE, c>>, <<r, c>>, <<(r + 1) % GRID_SIZE, c>>}

C8_BlinkerHasPeriodTwo ==
    \A r \in 0..(GRID_SIZE - 1), c \in 0..(GRID_SIZE - 1) :
       (pc \in {"animate", "saved"} /\ LiveCells(gen0) = RowOfThree(r, c)) =>
          \A k \in 1..Len(emitted) :
             IF k % 2 = 1
             THEN LiveCells(emitted[k]) = ColumnOfThree(r, c) /\ emitted[k] # gen0
             ELSE emitted[k] = gen0

\* a blinker whose row crosses the wrap-around edge, two steps on
C8_Witness ==
    /\ Len(emitted) >= 2
    /\ LiveCells(gen0) = RowOfThree(0, 0)
    /\ LiveCells(emitted[1]) = ColumnOfThree(0, 0)
    /\ emitted[1] # gen0
    /\ emitted[2] = gen0

(***************************************************************************)
(* C9: once created, the grid keeps its GRID_SIZE x GRID_SIZE dimensions,  *)
(* every cell is DEAD or ALIVE, and every neighbour count a step computes  *)
(* lies in 0..8, inside the rule table's 2 x 9 domain.                     *)
(***************************************************************************)
IsMatrixOver(m, values) ==
    /\ Len(m) = GRID_SIZE
    /\ \A r \in 1..GRID_SIZE :
          /\ Len(m[r]) = GRID_SIZE
          /\ \A c \in 1..GRID_SIZE : m[r][c] \in values

C9_GridAndCountsStayInDomain ==
    /\ pc \in {"bake", "error", "animate", "saved"} => IsMatrixOver(grid, {DEAD, ALIVE})
    /\ calls >= 1 =>
         /\ IsMatrixOver(num_neighbors, 0..8)
         /\ DOMAIN rules = 1..2
         /\ \A s \in 1..2 : DOMAIN rules[s] = 1..9
    /\ \A k \in 1..Len(emitted) : IsMatrixOver(emitted[k], {DEAD, ALIVE})

\* a finished run whose last step computed a count of 5 and gave birth to a cell
C9_Witness ==
    /\ pc = "saved"
    /\ calls = MaxFrames
    /\ \E r \in 1..GRID_SIZE, c \in 1..GRID_SIZE : num_neighbors[r][c] >= 5
    /\ \E r \in 1..GRID_SIZE, c \in 1..GRID_SIZE : Prev[r][c] = DEAD /\ grid[r][c] = ALIVE

====
